---- MODULE Spec2Model ----
(***************************************************************************)
(* Model of coverage_analysis.py: the Cobertura parser, the text report    *)
(* formatter, the JSON serializer and the driver main().                   *)
(*                                                                         *)
(* Floats are fixed-point integers in thousandths (0.45 is 450), which is  *)
(* exact for the attribute texts of FloatValue; a percentage rate*100 is   *)
(* therefore compared against 90*Scale, 70*Scale, 50*Scale.                *)
(***************************************************************************)
EXTENDS Integers, Sequences, FiniteSets, TLC

VARIABLES pc, exit_status, xml_exists, xml_doc, coverage_data, text_report,
          json_file, txt_file, stdout

vars == <<pc, exit_status, xml_exists, xml_doc, coverage_data, text_report,
          json_file, txt_file, stdout>>

\* Largest number of <package> plus <class> elements in an input document.
MaxElems == 4

Scale == 1000

(***************************************************************************)
(* Values                                                                  *)
(***************************************************************************)
None == [type |-> "NoneType"]

Unset == [type |-> "unbound"]

NoFile == [exists |-> FALSE]

OldFile == [exists |-> TRUE, data |-> [stale |-> TRUE]]

Malformed == [malformed |-> TRUE]

Unreadable == [unreadable |-> TRUE]

Running == -1

(***************************************************************************)
(* Numeric conversion of attribute texts                                   *)
(***************************************************************************)
IntValue ==
    ("0" :> 0) @@ ("45" :> 45) @@ ("100" :> 100) @@ ("1200" :> 1200)

FloatValue ==
    ("0" :> 0) @@ ("0.0" :> 0) @@ ("0.2" :> 200) @@ ("0.45" :> 450)
    @@ ("0.499" :> 499) @@ ("0.5" :> 500) @@ ("0.699" :> 699)
    @@ ("0.7" :> 700) @@ ("0.899" :> 899) @@ ("0.9" :> 900)
    @@ ("1.5" :> 1500) @@ ("-0.25" :> -250) @@ ("2.5" :> 2500)
    @@ ("1e2" :> 100000) @@ ("100" :> 100000)

\* int(text) raises ValueError on a text that is not an integer literal.
IntRaises(text) == text \notin DOMAIN IntValue

int(text) == IntValue[text]

\* float(text) raises ValueError on a text that is not a number.
FloatRaises(text) == text \notin DOMAIN FloatValue

float(text) == FloatValue[text]

\* attrib.get(key, default)
Get(attrib, key, default) ==
    IF key \in DOMAIN attrib THEN attrib[key] ELSE default

(***************************************************************************)
(* parse_cobertura_xml                                                     *)
(***************************************************************************)
RateKeys == {"line-rate", "branch-rate"}

RootIntKeys ==
    {"lines-valid", "lines-covered", "branches-valid", "branches-covered"}

ClassIntKeys ==
    {"lines-valid", "lines-covered", "branches-valid", "branches-covered"}

ElemFloatKeys == {"line-rate", "branch-rate", "complexity"}

\* ParseFile reading branch_rate from the line-rate attribute
ParseFile_BranchFromLine(class_elem) ==
    [name             |-> Get(class_elem, "filename", "unknown"),
     line_rate        |-> float(Get(class_elem, "line-rate", "0.0")),
     branch_rate      |-> float(Get(class_elem, "line-rate", "0.0")),
     complexity       |-> float(Get(class_elem, "complexity", "0.0")),
     lines            |-> int(Get(class_elem, "lines-valid", "0")),
     covered_lines    |-> int(Get(class_elem, "lines-covered", "0")),
     branches         |-> int(Get(class_elem, "branches-valid", "0")),
     covered_branches |-> int(Get(class_elem, "branches-covered", "0"))]

ParseFile(class_elem) ==
    [name             |-> Get(class_elem, "filename", "unknown"),
     line_rate        |-> float(Get(class_elem, "line-rate", "0.0")),
     branch_rate      |-> float(Get(class_elem, "branch-rate", "0.0")),
     complexity       |-> float(Get(class_elem, "complexity", "0.0")),
     lines            |-> int(Get(class_elem, "lines-valid", "0")),
     covered_lines    |-> int(Get(class_elem, "lines-covered", "0")),
     branches         |-> int(Get(class_elem, "branches-valid", "0")),
     covered_branches |-> int(Get(class_elem, "branches-covered", "0"))]

ParseModule(package) ==
    [name        |-> Get(package.attrib, "name", "unknown"),
     line_rate   |-> float(Get(package.attrib, "line-rate", "0.0")),
     branch_rate |-> float(Get(package.attrib, "branch-rate", "0.0")),
     complexity  |-> float(Get(package.attrib, "complexity", "0.0")),
     files       |-> [i \in 1..Len(package.classes) |->
                         ParseFile(package.classes[i])]]

\* Some conversion in the try block raises; the handler returns None.
ParseRaises(doc) ==
    \/ doc \in {Malformed, Unreadable}
    \/ /\ doc \notin {Malformed, Unreadable}
       /\ \/ \E k \in RootIntKeys : IntRaises(Get(doc.root, k, "0"))
          \/ \E k \in RateKeys : FloatRaises(Get(doc.root, k, "0.0"))
          \/ \E i \in 1..Len(doc.packages) :
                \/ \E k \in ElemFloatKeys :
                      FloatRaises(Get(doc.packages[i].attrib, k, "0.0"))
                \/ \E j \in 1..Len(doc.packages[i].classes) :
                      \/ \E k \in ElemFloatKeys :
                            FloatRaises(Get(doc.packages[i].classes[j], k, "0.0"))
                      \/ \E k \in ClassIntKeys :
                            IntRaises(Get(doc.packages[i].classes[j], k, "0"))

parse_cobertura_xml(doc) ==
    IF ParseRaises(doc)
    THEN None
    ELSE [total_lines      |-> int(Get(doc.root, "lines-valid", "0")),
          covered_lines    |-> int(Get(doc.root, "lines-covered", "0")),
          line_rate        |-> float(Get(doc.root, "line-rate", "0.0")),
          total_branches   |-> int(Get(doc.root, "branches-valid", "0")),
          covered_branches |-> int(Get(doc.root, "branches-covered", "0")),
          branch_rate      |-> float(Get(doc.root, "branch-rate", "0.0")),
          modules          |-> [i \in 1..Len(doc.packages) |->
                                   ParseModule(doc.packages[i])],
          files            |-> <<>>]

(***************************************************************************)
(* generate_text_report                                                    *)
(***************************************************************************)
RECURSIVE Reverse(_)
Reverse(s) == IF s = <<>> THEN <<>> ELSE Reverse(Tail(s)) \o <<Head(s)>>

\* Insert placing x in front of the elements of equal key (not stable)
RECURSIVE Insert_Unstable(_, _)
Insert_Unstable(x, s) ==
    IF s = <<>> THEN <<x>>
    ELSE IF x.line_rate <= Head(s).line_rate THEN <<x>> \o s
    ELSE <<Head(s)>> \o Insert_Unstable(x, Tail(s))

\* Insertion of x behind every element whose key is not greater (x < e is
\* the only comparison list.sort makes).
RECURSIVE Insert(_, _)
Insert(x, s) ==
    IF s = <<>> THEN <<x>>
    ELSE IF x.line_rate < Head(s).line_rate THEN <<x>> \o s
    ELSE <<Head(s)>> \o Insert(x, Tail(s))

\* sorted(list, key=lambda x: x['line_rate'])
RECURSIVE sorted(_)
sorted(list) ==
    IF list = <<>> THEN <<>>
    ELSE Insert(list[Len(list)], sorted(SubSeq(list, 1, Len(list) - 1)))

\* sorted_reverse as the reversal of the ascending sort
sorted_reverse_Unstable(list) == Reverse(sorted(list))

\* sorted(list, key=lambda x: x['line_rate'], reverse=True): list.sort
\* reverses the list, sorts it stably, and reverses the result.
sorted_reverse(list) == Reverse(sorted(Reverse(list)))

\* file_info['module'] = module['name'] for every file of the module; the
\* records of all_files are the very records held by the module.
Annotate(module) ==
    [i \in 1..Len(module.files) |->
        ("module" :> module.name) @@ module.files[i]]

RECURSIVE Flatten(_)
Flatten(modules) ==
    IF modules = <<>> THEN <<>>
    ELSE Annotate(Head(modules)) \o Flatten(Tail(modules))

all_files(data) == Flatten(data.modules)

\* coverage_data as generate_text_report leaves it.
AnnotatedData(data) ==
    IF data = None THEN data
    ELSE
    [data EXCEPT !.modules =
        [i \in 1..Len(data.modules) |->
            [data.modules[i] EXCEPT !.files = Annotate(data.modules[i])]]]

\* f"{x:.1f}" of a thousandths value, in tenths
Fmt1(x) == (x + 50) \div 100

\* status with the boundaries exclusive
status_Strict(coverage_pct) ==
    IF coverage_pct > 90 * Scale THEN "EXCELLENT"
    ELSE IF coverage_pct > 70 * Scale THEN "GOOD"
    ELSE "NEEDS WORK"

status(coverage_pct) ==
    IF coverage_pct >= 90 * Scale THEN "EXCELLENT"
    ELSE IF coverage_pct >= 70 * Scale THEN "GOOD"
    ELSE "NEEDS WORK"

overall_banner(overall_coverage) ==
    IF overall_coverage >= 80 * Scale THEN "EXCELLENT"
    ELSE IF overall_coverage >= 60 * Scale THEN "GOOD"
    ELSE "NEEDS WORK"

IsLow(f) == f.line_rate * 100 < 50 * Scale

\* low_coverage_files filtering all_files_sorted instead of all_files
low_coverage_files_Sorted(files) == SelectSeq(sorted(files), IsLow)

low_coverage_files(files) == SelectSeq(files, IsLow)

ModuleLines(module) ==
    [name        |-> module.name,
     line_pct    |-> Fmt1(module.line_rate * 100),
     branch_pct  |-> Fmt1(module.branch_rate * 100),
     complexity  |-> Fmt1(module.complexity)]

FileLines(file_info) ==
    [name          |-> file_info.name,
     module        |-> file_info.module,
     line_pct      |-> Fmt1(file_info.line_rate * 100),
     status        |-> status(file_info.line_rate * 100),
     covered_lines |-> file_info.covered_lines,
     lines         |-> file_info.lines,
     branch_pct    |-> Fmt1(file_info.branch_rate * 100),
     complexity    |-> Fmt1(file_info.complexity)]

AttentionLine(file_info) ==
    [name |-> file_info.name, pct |-> Fmt1(file_info.line_rate * 100)]

DetailSection(files) ==
    LET all_files_sorted == sorted(files)
    IN  [i \in 1..Len(all_files_sorted) |-> FileLines(all_files_sorted[i])]

ModuleSection(modules) ==
    LET modules_sorted == sorted_reverse(modules)
    IN  [i \in 1..Len(modules_sorted) |-> ModuleLines(modules_sorted[i])]

AttentionSection(files) ==
    LET low == low_coverage_files(files)
    IN  [i \in 1..Len(low) |-> AttentionLine(low[i])]

generate_text_report(data) ==
    IF data = None
    THEN [no_data |-> TRUE]
    ELSE [total_lines       |-> data.total_lines,
          covered_lines     |-> data.covered_lines,
          line_pct          |-> Fmt1(data.line_rate * 100),
          total_branches    |-> data.total_branches,
          covered_branches  |-> data.covered_branches,
          branch_pct        |-> Fmt1(data.branch_rate * 100),
          modules           |-> ModuleSection(data.modules),
          files             |-> DetailSection(all_files(data)),
          banner            |-> overall_banner(data.line_rate * 100),
          overall_pct       |-> Fmt1(data.line_rate * 100),
          attention_heading |-> low_coverage_files(all_files(data)) # <<>>,
          attention         |-> AttentionSection(all_files(data))]

(***************************************************************************)
(* generate_json_report: json.dump writes a dict as an object whose        *)
(* members are its items in insertion order, a list as an array, a str as  *)
(* a string and an int or float as a number (repr of a float reads back    *)
(* as the same float).                                                     *)
(***************************************************************************)
ReportKeyOrder ==
    <<"total_lines", "covered_lines", "line_rate", "total_branches",
      "covered_branches", "branch_rate", "modules", "files">>

ModuleKeyOrder == <<"name", "line_rate", "branch_rate", "complexity", "files">>

FileKeyOrder ==
    <<"name", "line_rate", "branch_rate", "complexity", "lines",
      "covered_lines", "branches", "covered_branches", "module">>

StrKeys == {"name", "module"}

\* the keys of dict d, in insertion order
Keys(d, order) == SelectSeq(order, LAMBDA k : k \in DOMAIN d)

DumpScalar(k, v) == IF k \in StrKeys THEN [str |-> v] ELSE [num |-> v]

DumpFile(f) ==
    LET ks == Keys(f, FileKeyOrder)
    IN  [obj |-> [i \in 1..Len(ks) |-> <<ks[i], DumpScalar(ks[i], f[ks[i]])>>]]

DumpModule(m) ==
    LET ks == Keys(m, ModuleKeyOrder)
    IN  [obj |-> [i \in 1..Len(ks) |->
           <<ks[i],
             IF ks[i] = "files"
             THEN [arr |-> [j \in 1..Len(m.files) |-> DumpFile(m.files[j])]]
             ELSE DumpScalar(ks[i], m[ks[i]])>>]]

json_dump(data) ==
    LET ks == Keys(data, ReportKeyOrder)
    IN  IF data = None THEN [null |-> TRUE] ELSE
        [obj |-> [i \in 1..Len(ks) |->
           <<ks[i],
             IF ks[i] = "modules"
             THEN [arr |-> [j \in 1..Len(data.modules) |->
                              DumpModule(data.modules[j])]]
             ELSE IF ks[i] = "files"
             THEN [arr |-> [j \in 1..Len(data.files) |->
                              DumpFile(data.files[j])]]
             ELSE DumpScalar(ks[i], data[ks[i]])>>]]

\* json.load: the value a JSON document reads back as
RECURSIVE json_load(_)
json_load(j) ==
    IF "null" \in DOMAIN j THEN None
    ELSE IF "num" \in DOMAIN j THEN j.num
    ELSE IF "str" \in DOMAIN j THEN j.str
    ELSE IF "arr" \in DOMAIN j
    THEN [i \in 1..Len(j.arr) |-> json_load(j.arr[i])]
    ELSE [k \in {j.obj[i][1] : i \in 1..Len(j.obj)} |->
            json_load(j.obj[CHOOSE i \in 1..Len(j.obj) : j.obj[i][1] = k][2])]

(***************************************************************************)
(* Input documents                                                         *)
(***************************************************************************)
Absent == "<absent>"

\* the attribute key="text", or no attribute
Attr(key, text) == IF text = Absent THEN <<>> ELSE (key :> text)

\* Two line-rate texts and a lines-valid text per family of documents.
Pools ==
    { [r1 |-> "0.499",  r2 |-> "0.5",   lines |-> "100"],
      [r1 |-> "0.699",  r2 |-> "0.9",   lines |-> "100"],
      [r1 |-> "0.7",    r2 |-> "0.899", lines |-> "100"],
      [r1 |-> Absent,   r2 |-> "1.5",   lines |-> "100"],
      [r1 |-> "0.45",   r2 |-> "0.2",   lines |-> "100"],
      [r1 |-> "-0.25",  r2 |-> "abc",   lines |-> "1e2"] }

NamedClass(rate, lines) ==
    ("filename" :> "src/lib.rs") @@ Attr("line-rate", rate)
    @@ ("branch-rate" :> "0.5") @@ ("complexity" :> "2.5")
    @@ ("lines-valid" :> lines) @@ ("lines-covered" :> "45")

BareClass(rate) == Attr("line-rate", rate)

ClassElems(P) ==
    {NamedClass(P.r1, P.lines), NamedClass(P.r2, P.lines), BareClass(P.r1)}

NamedPackage(rate) ==
    ("name" :> "core") @@ Attr("line-rate", rate)
    @@ ("branch-rate" :> "0.7") @@ ("complexity" :> "2.5")

BarePackage(rate) == Attr("line-rate", rate)

PackageHeads(P) == {NamedPackage(P.r1), NamedPackage(P.r2), BarePackage(P.r1)}

Roots(P) ==
    { Attr("line-rate", P.r1) @@ ("lines-valid" :> "1200")
        @@ ("lines-covered" :> "45") @@ ("branch-rate" :> "0.9"),
      Attr("line-rate", P.r2) }

\* <package> elements made of exactly n elements (the package and n-1 classes)
PackagesOfSize(P, n) ==
    { [attrib |-> h, classes |-> cs] :
        h \in PackageHeads(P), cs \in [1..(n - 1) -> ClassElems(P)] }

\* sequences of packages made of exactly n elements in total
RECURSIVE PackageSeqs(_, _)
PackageSeqs(P, n) ==
    IF n = 0 THEN {<<>>}
    ELSE UNION { { <<pk>> \o rest :
                     pk \in PackagesOfSize(P, k),
                     rest \in PackageSeqs(P, n - k) } : k \in 1..n }

Documents ==
    {Malformed, Unreadable}
    \cup UNION { { [root |-> rt, packages |-> ps] :
                     rt \in Roots(P),
                     ps \in UNION {PackageSeqs(P, n) : n \in 0..MaxElems} }
                 : P \in Pools }

(***************************************************************************)
(* main                                                                    *)
(***************************************************************************)
Msg(text) == [msg |-> text]

\* Falsy testing only for an empty dict
Falsy_EmptyOnly(data) == DOMAIN data = {}

\* Falsy also rejecting a report without modules
Falsy_EmptyModules(data) == data = None \/ data.modules = <<>>

\* not coverage_data
Falsy(data) == data = None \/ DOMAIN data = {}

Init ==
    /\ pc = "start"
    /\ exit_status = Running
    /\ xml_exists \in BOOLEAN
    /\ xml_doc \in IF xml_exists THEN Documents ELSE {Unreadable}
    /\ coverage_data = Unset
    /\ text_report = Unset
    /\ \E old \in {NoFile, OldFile} : json_file = old /\ txt_file = old
    /\ stdout = <<>>

\* InputMissing without the sys.exit(1): the run goes on to the parser
InputMissing_FallsThrough ==
    /\ pc = "start"
    /\ ~xml_exists
    /\ stdout' = stdout \o <<Msg("Error: Coverage file not found"),
                            Msg("Please run: cargo tarpaulin"),
                            Msg("Analyzing coverage data..."),
                            Msg("Error parsing XML")>>
    /\ coverage_data' = parse_cobertura_xml(xml_doc)
    /\ pc' = "parsed"
    /\ UNCHANGED <<exit_status, xml_exists, xml_doc, text_report,
                   json_file, txt_file>>

\* if not os.path.exists(xml_file): ... sys.exit(1)
InputMissing ==
    /\ pc = "start"
    /\ ~xml_exists
    /\ stdout' = stdout \o <<Msg("Error: Coverage file not found"),
                            Msg("Please run: cargo tarpaulin")>>
    /\ exit_status' = 1
    /\ pc' = "exited"
    /\ UNCHANGED <<xml_exists, xml_doc, coverage_data, text_report,
                   json_file, txt_file>>

\* coverage_data = parse_cobertura_xml(xml_file)
Parse ==
    /\ pc = "start"
    /\ xml_exists
    /\ coverage_data' = parse_cobertura_xml(xml_doc)
    /\ stdout' = stdout \o <<Msg("Analyzing coverage data...")>>
              \o (IF ParseRaises(xml_doc) THEN <<Msg("Error parsing XML")>>
                  ELSE <<>>)
    /\ pc' = "parsed"
    /\ UNCHANGED <<exit_status, xml_exists, xml_doc, text_report,
                   json_file, txt_file>>

\* if not coverage_data: ... sys.exit(1)
ParseFailed ==
    /\ pc = "parsed"
    /\ Falsy(coverage_data)
    /\ stdout' = stdout \o <<Msg("Failed to parse coverage data")>>
    /\ exit_status' = 1
    /\ pc' = "exited"
    /\ UNCHANGED <<xml_exists, xml_doc, coverage_data, text_report,
                   json_file, txt_file>>

\* text_report = generate_text_report(coverage_data)
GenerateText ==
    /\ pc = "parsed"
    /\ ~Falsy(coverage_data)
    /\ text_report' = generate_text_report(coverage_data)
    /\ coverage_data' = AnnotatedData(coverage_data)
    /\ stdout' = stdout \o <<Msg("Generating text report...")>>
    /\ pc' = "text"
    /\ UNCHANGED <<exit_status, xml_exists, xml_doc, json_file, txt_file>>

\* generate_json_report(coverage_data, 'coverage_report.json')
GenerateJson ==
    /\ pc = "text"
    /\ json_file' = [exists |-> TRUE, data |-> json_dump(coverage_data)]
    /\ stdout' = stdout \o <<Msg("Generating JSON report...")>>
    /\ pc' = "json"
    /\ UNCHANGED <<exit_status, xml_exists, xml_doc, coverage_data,
                   text_report, txt_file>>

\* with open('coverage_report.txt', 'w') as f: f.write(text_report)
SaveText ==
    /\ pc = "json"
    /\ txt_file' = [exists |-> TRUE, data |-> text_report]
    /\ pc' = "saved"
    /\ UNCHANGED <<exit_status, xml_exists, xml_doc, coverage_data,
                   text_report, json_file, stdout>>

\* the closing prints, print(text_report), and the return from main
PrintReport ==
    /\ pc = "saved"
    /\ stdout' = stdout \o <<Msg("Coverage analysis complete!"),
                            Msg("Reports generated:"), text_report>>
    /\ exit_status' = 0
    /\ pc' = "exited"
    /\ UNCHANGED <<xml_exists, xml_doc, coverage_data, text_report,
                   json_file, txt_file>>

Next ==
    \/ InputMissing
    \/ Parse
    \/ ParseFailed
    \/ GenerateText
    \/ GenerateJson
    \/ SaveText
    \/ PrintReport

Spec == Init /\ [][Next]_vars

(***************************************************************************)
(* Properties                                                              *)
(***************************************************************************)
ParsedOK == xml_exists /\ ~ParseRaises(xml_doc)

Written(file) == file.exists /\ file # OldFile

MissingInputState ==
    /\ pc \in {"start", "exited"}
    /\ coverage_data = Unset
    /\ text_report = Unset
    /\ IF pc = "exited" THEN exit_status = 1 ELSE ENABLED InputMissing

\* C1: when coverage/cobertura.xml does not exist, the parser, formatter and
\* serializer are never invoked, no step of the run creates or modifies
\* coverage_report.txt or coverage_report.json, and the run ends with exit
\* status 1.
C1_MissingInputExits1 ==
    [][~xml_exists =>
         /\ UNCHANGED <<json_file, txt_file>>
         /\ MissingInputState
         /\ MissingInputState']_vars

C1_Witness ==
    /\ ~xml_exists
    /\ pc = "exited"
    /\ exit_status = 1
    /\ json_file = OldFile
    /\ txt_file = OldFile

ParseFailureState ==
    /\ text_report = Unset
    /\ pc \in {"start", "parsed", "exited"}
    /\ pc = "parsed" => Falsy(coverage_data)
    /\ IF pc = "exited" THEN exit_status = 1 ELSE exit_status = Running

\* C2: when the input exists but parse_cobertura_xml fails, the run ends with
\* a non-zero exit status and no report file is written; on every run a step
\* that writes either report file is preceded by a successful parse.
C2_ParseFailureWritesNothing ==
    [][/\ (xml_exists /\ ParseRaises(xml_doc)) =>
            /\ UNCHANGED <<json_file, txt_file>>
            /\ ParseFailureState
            /\ ParseFailureState'
       /\ (json_file' # json_file \/ txt_file' # txt_file) =>
            /\ ParsedOK
            /\ coverage_data \notin {Unset, None}]_vars

C2_Witness ==
    /\ xml_exists
    /\ xml_doc \notin {Malformed, Unreadable}
    /\ ParseRaises(xml_doc)
    /\ coverage_data = None
    /\ pc = "exited"
    /\ exit_status = 1
    /\ json_file = OldFile
    /\ txt_file = OldFile

\* C3: when the input exists and parses into a report (also one with no
\* modules), the run writes the structured report and the text report, prints
\* the text report it wrote to coverage_report.txt, and ends with status zero;
\* no run ends with status zero unless both report files have been written.
C3_SuccessWritesBoth ==
    /\ exit_status = 0 =>
          /\ pc = "exited"
          /\ ParsedOK
          /\ Written(json_file)
          /\ json_file.data = json_dump(coverage_data)
          /\ Written(txt_file)
          /\ txt_file.data = text_report
          /\ "no_data" \notin DOMAIN text_report
          /\ stdout[Len(stdout)] = txt_file.data
    /\ ParsedOK =>
          /\ pc = "exited" => exit_status = 0
          /\ pc = "parsed" => ~Falsy(coverage_data)
          /\ pc \in {"json", "saved", "exited"} => Written(json_file)
          /\ pc \in {"saved", "exited"} => Written(txt_file)

C3_Witness ==
    /\ ParsedOK
    /\ pc = "exited"
    /\ exit_status = 0
    /\ coverage_data.modules = <<>>
    /\ Written(json_file)
    /\ Written(txt_file)

\* C4: generate_text_report has no side effects: once the formatter has run,
\* coverage_data (totals, modules, and the field set of every file record) is
\* still the report the parser produced.
C4_FormatterLeavesReportUnchanged ==
    text_report # Unset => coverage_data = parse_cobertura_xml(xml_doc)

\* C5: the structured document the driver writes reads back as the parsed
\* report: same totals, rates, complexities and counts, same nesting and order
\* of modules and files, same fields.
C5_JsonReadsBackAsParsedReport ==
    Written(json_file) =>
        json_load(json_file.data) = parse_cobertura_xml(xml_doc)

\* C6 (as stated): every rate of a report returned by parse_cobertura_xml is
\* in [0,1].
C6_RatesInUnitInterval ==
    coverage_data \notin {Unset, None} =>
        LET InUnit(x) == 0 <= x /\ x <= Scale
        IN  /\ InUnit(coverage_data.line_rate)
            /\ InUnit(coverage_data.branch_rate)
            /\ \A i \in 1..Len(coverage_data.modules) :
                  LET m == coverage_data.modules[i]
                  IN  /\ InUnit(m.line_rate)
                      /\ InUnit(m.branch_rate)
                      /\ \A j \in 1..Len(m.files) :
                            /\ InUnit(m.files[j].line_rate)
                            /\ InUnit(m.files[j].branch_rate)

\* C6 (amended): every rate of a report returned by parse_cobertura_xml is the
\* number its attribute text denotes, whatever its range, and 0 when the
\* attribute is absent; so it is in [0,1] whenever the attribute is absent or
\* denotes a number in [0,1].
C6_RatesAreAttributeValues ==
    coverage_data \notin {Unset, None} =>
        LET Denoted(attrib, key) ==
                IF key \in DOMAIN attrib THEN FloatValue[attrib[key]] ELSE 0
            InUnit(x) == 0 <= x /\ x <= Scale
            Agrees(rec, attrib) ==
                /\ rec.line_rate = Denoted(attrib, "line-rate")
                /\ rec.branch_rate = Denoted(attrib, "branch-rate")
                /\ InUnit(Denoted(attrib, "line-rate")) => InUnit(rec.line_rate)
                /\ InUnit(Denoted(attrib, "branch-rate")) => InUnit(rec.branch_rate)
        IN  /\ Agrees(coverage_data, xml_doc.root)
            /\ Len(coverage_data.modules) = Len(xml_doc.packages)
            /\ \A i \in 1..Len(xml_doc.packages) :
                  LET m == coverage_data.modules[i]
                      pk == xml_doc.packages[i]
                  IN  /\ Agrees(m, pk.attrib)
                      /\ Len(m.files) = Len(pk.classes)
                      /\ \A j \in 1..Len(pk.classes) :
                            Agrees(m.files[j], pk.classes[j])

\* a parsed report holding a rate above 1 next to a rate defaulted to 0
C6_Witness ==
    /\ coverage_data \notin {Unset, None}
    /\ "line-rate" \notin DOMAIN xml_doc.root
    /\ coverage_data.line_rate = 0
    /\ \E i \in 1..Len(coverage_data.modules) :
          /\ coverage_data.modules[i].line_rate > Scale
          /\ \E j \in 1..Len(coverage_data.modules[i].files) :
                /\ "line-rate" \notin DOMAIN xml_doc.packages[i].classes[j]
                /\ coverage_data.modules[i].files[j].line_rate = 0
                /\ coverage_data.modules[i].files[j].branch_rate = 0

\* C7: the module breakdown lists a permutation of the report's modules by
\* non-increasing line rate, modules of equal line rate in input order.
C7_ModulesStableDescending ==
    (ParsedOK /\ text_report # Unset) =>
        LET mods == parse_cobertura_xml(xml_doc).modules
            n == Len(mods)
            shown == text_report.modules
        IN  /\ Len(shown) = n
            /\ \E p \in [1..n -> 1..n] :
                  /\ \A i, j \in 1..n : i # j => p[i] # p[j]
                  /\ \A i \in 1..n : shown[i] = ModuleLines(mods[p[i]])
                  /\ \A i, j \in 1..n : i < j =>
                        \/ mods[p[i]].line_rate > mods[p[j]].line_rate
                        \/ /\ mods[p[i]].line_rate = mods[p[j]].line_rate
                           /\ p[i] < p[j]

\* two modules of equal rate followed by a module of higher rate
C7_Witness ==
    /\ ParsedOK
    /\ text_report # Unset
    /\ Len(coverage_data.modules) = 3
    /\ LET mods == coverage_data.modules
           shown == text_report.modules
       IN  /\ mods[1].line_rate = mods[2].line_rate
           /\ mods[1].name # mods[2].name
           /\ mods[3].line_rate > mods[1].line_rate
           /\ shown[1].name = mods[3].name
           /\ shown[2].name = mods[1].name
           /\ shown[3].name = mods[2].name

\* C8: the per-file detail lists every file of every module exactly once,
\* with the name of its owning module, by non-decreasing line rate across all
\* modules; files of equal line rate keep the flattened input order.
C8_FilesStableAscending ==
    (ParsedOK /\ text_report # Unset) =>
        LET mods == parse_cobertura_xml(xml_doc).modules
            Idx == UNION { { <<m, f>> : f \in 1..Len(mods[m].files) } :
                           m \in 1..Len(mods) }
            n == Cardinality(Idx)
            shown == text_report.files
            File(a) == mods[a[1]].files[a[2]]
            Before(a, b) == a[1] < b[1] \/ (a[1] = b[1] /\ a[2] < b[2])
        IN  /\ Len(shown) = n
            /\ \E p \in [1..n -> Idx] :
                  /\ \A i, j \in 1..n : i # j => p[i] # p[j]
                  /\ \A i \in 1..n :
                        /\ shown[i].name = File(p[i]).name
                        /\ shown[i].module = mods[p[i][1]].name
                        /\ shown[i] =
                             FileLines(("module" :> mods[p[i][1]].name)
                                       @@ File(p[i]))
                  /\ \A i, j \in 1..n : i < j =>
                        \/ File(p[i]).line_rate < File(p[j]).line_rate
                        \/ /\ File(p[i]).line_rate = File(p[j]).line_rate
                           /\ Before(p[i], p[j])

\* the file of the second module is listed before the file of the first
C8_Witness ==
    /\ ParsedOK
    /\ text_report # Unset
    /\ Len(coverage_data.modules) = 2
    /\ Len(text_report.files) = 2
    /\ LET mods == coverage_data.modules
           shown == text_report.files
       IN  /\ Len(mods[1].files) = 1
           /\ mods[1].name # mods[2].name
           /\ mods[1].files[1].line_rate > mods[2].files[1].line_rate
           /\ shown[1].module = mods[2].name
           /\ shown[2].module = mods[1].name

\* C9: every entry of the per-file detail carries one label: EXCELLENT iff
\* its line coverage is at least 90.0%, GOOD iff at least 70.0% and below
\* 90.0%, NEEDS WORK iff below 70.0% (percentages in tenths).
C9_StatusLabels ==
    (ParsedOK /\ text_report # Unset) =>
        \A i \in 1..Len(text_report.files) :
            LET e == text_report.files[i]
            IN  /\ e.status \in {"EXCELLENT", "GOOD", "NEEDS WORK"}
                /\ e.status = "EXCELLENT" <=> e.line_pct >= 900
                /\ e.status = "GOOD" <=> (e.line_pct >= 700 /\ e.line_pct < 900)
                /\ e.status = "NEEDS WORK" <=> e.line_pct < 700

\* a report with a file at exactly 90.0% and a file at 69.9%
C9_Witness ==
    /\ ParsedOK
    /\ text_report # Unset
    /\ \E i, j \in 1..Len(text_report.files) :
          /\ text_report.files[i].line_pct = 900
          /\ text_report.files[i].status = "EXCELLENT"
          /\ text_report.files[j].line_pct = 699
          /\ text_report.files[j].status = "NEEDS WORK"

\* C10: the "needing attention" list holds exactly the files whose line
\* coverage is below 50%, each once, in flattened input order; the heading
\* is there iff the list is not empty.
C10_AttentionList ==
    (ParsedOK /\ text_report # Unset) =>
        LET mods == parse_cobertura_xml(xml_doc).modules
            Idx == UNION { { <<m, f>> : f \in 1..Len(mods[m].files) } :
                           m \in 1..Len(mods) }
            File(a) == mods[a[1]].files[a[2]]
            Low == { a \in Idx : File(a).line_rate < 500 }
            Before(a, b) == a[1] < b[1] \/ (a[1] = b[1] /\ a[2] < b[2])
            n == Cardinality(Low)
            shown == text_report.attention
        IN  /\ Len(shown) = n
            /\ text_report.attention_heading <=> n > 0
            /\ \E p \in [1..n -> Low] :
                  /\ \A i, j \in 1..n : i < j => Before(p[i], p[j])
                  /\ \A i \in 1..n :
                        /\ shown[i].name = File(p[i]).name
                        /\ shown[i].pct = File(p[i]).line_rate

\* a file at 49.9% is listed and a file at 50.0% is not
C10_Witness ==
    /\ ParsedOK
    /\ text_report # Unset
    /\ text_report.attention_heading
    /\ \E i \in 1..Len(text_report.files) : text_report.files[i].line_pct = 500
    /\ \E i \in 1..Len(text_report.attention) : text_report.attention[i].pct = 499
    /\ \A i \in 1..Len(text_report.attention) : text_report.attention[i].pct < 500

====
